---- MODULE Spec2Model ----
(***************************************************************************)
(* Message lifecycle of telegram-secretary: the intake pipeline            *)
(* (userbot.save_message, userbot.send_warning_for_message), the batch     *)
(* selector (scheduler.get_message_stats, scheduler.get_unlabeled_messages,*)
(* scheduler.generate_and_send_summary) and the label resolver             *)
(* (bot.handle_label_callback), all working on the messages table through  *)
(* database.get_session.                                                   *)
(*                                                                         *)
(* Every get_session block is one transaction.  On PostgreSQL each block   *)
(* has a connection of its own (NullPool, database.py:60-65) and its writes *)
(* become visible to other sessions when the block commits                 *)
(* (database.py:101).  On SQLite every block works on the one connection   *)
(* of StaticPool (database.py:53-58): a statement a block has flushed is   *)
(* visible to the others at once, and a commit commits what any block has  *)
(* flushed.  Coroutines interleave at their awaits: the model has one step *)
(* per await that separates a read of the table from a later write or side *)
(* effect.                                                                 *)
(*                                                                         *)
(* Time is counted in hours.  A message text is represented by what the    *)
(* pipeline derives from it: has_mention, is_question and its length.      *)
(***************************************************************************)
EXTENDS Integers, Sequences, FiniteSets, TLC

\* ---------------------------------------------------------------- bounds
MaxMsgs == 2
MaxTicks == 1
TickHours == 5
\* The ledger specification: the rows of the table and the configured
\* MAX_MESSAGES_PER_SUMMARY.
LedgerRows == 3
LedgerCap == 2

\* ------------------------------------------------------ program constants
SCORE_MENTION == 3
SCORE_QUESTION == 2
SCORE_LONG_MESSAGE == 1
SCORE_HIGH_PRIORITY_USER == 2
MIN_LONG_MESSAGE_LENGTH == 100

summary_interval_hours == 4
max_messages_per_summary == 15
min_priority_score == 1
warning_threshold_score == 5
client_user_id == 1

\* A NULL column.
NULL == << >>
Some(v) == << v >>
Min(a, b) == IF a <= b THEN a ELSE b

\* ------------------------------------------------------------ input sets
\* HighPriorityUser rows (written by an administrative path outside src/).
HighPriorityTable == {3}
\* The senders of the captured messages; each writes in a private chat, whose
\* chat id is the sender's id.
Senders == {2}
\* Senders of commands and callbacks: the client and a stranger.
BotUsers == {client_user_id, client_user_id + 1}
PlainText == [has_mention |-> FALSE, is_question |-> FALSE, len |-> 50]
LongMention == [has_mention |-> TRUE, is_question |-> FALSE, len |-> 101]
MentionQuestion == [has_mention |-> TRUE, is_question |-> TRUE, len |-> 50]
Texts == {PlainText, LongMention, MentionQuestion}

Runners == {"timer", "manual"}
MsgIds == 1..MaxMsgs

VARIABLES
    now,                  \* datetime.utcnow(), in hours
    messages,             \* committed rows of the messages table, by id
    next_id,              \* the table's autoincrement counter
    high_priority_users,  \* userbot._high_priority_users
    bot_app,              \* bot._bot_app is set
    is_sqlite,            \* the one connection of StaticPool serves every session
    refresh,              \* the rows a refresh_high_priority_users in flight has read
    intake,               \* the save_message call in flight
    run,                  \* the summary cycle of each runner
    alerts,               \* per message id: calls of send_warning_for_message,
                          \* bot.send_message calls that returned, that raised
    claims,               \* per message id: get_unlabeled_messages calls that returned it
    sent                  \* the summary messages and callback answers the latest
                          \* step handed to the bot, where the chat is observed

vars == << now, messages, next_id, high_priority_users, bot_app, is_sqlite, refresh,
           intake, run, alerts, claims, sent >>

\* ------------------------------------------------------------ utils.py
\* Variant: a text of MIN_LONG_MESSAGE_LENGTH characters counts as long.
calculate_priority_score_inclusive(message_len, has_mention, is_question, is_high_priority_user) ==
    (IF has_mention THEN SCORE_MENTION ELSE 0)
    + (IF is_question THEN SCORE_QUESTION ELSE 0)
    + (IF message_len > 0 /\ message_len >= MIN_LONG_MESSAGE_LENGTH
          THEN SCORE_LONG_MESSAGE ELSE 0)
    + (IF is_high_priority_user THEN SCORE_HIGH_PRIORITY_USER ELSE 0)

\* Lines 42-56; message_len is len(message_text), 0 for no text.
calculate_priority_score(message_len, has_mention, is_question, is_high_priority_user) ==
    (IF has_mention THEN SCORE_MENTION ELSE 0)
    + (IF is_question THEN SCORE_QUESTION ELSE 0)
    + (IF message_len > 0 /\ message_len > MIN_LONG_MESSAGE_LENGTH
          THEN SCORE_LONG_MESSAGE ELSE 0)
    + (IF is_high_priority_user THEN SCORE_HIGH_PRIORITY_USER ELSE 0)

\* ------------------------------------------------------------ the ledger
\* The defaults of the columns of models.Message that save_message does not
\* pass: both flags false, the label and the three timestamps NULL.
MessageDefaults ==
    [ warning_sent |-> FALSE,
      warning_sent_at |-> NULL,
      included_in_summary |-> FALSE,
      summary_sent_at |-> NULL,
      label |-> NULL,
      labeled_at |-> NULL ]

\* Variant: the row is built with warning_sent set.
NewMessage_alerted(id, tg, chat, user, text, ts, score, topic_summary) ==
    [ id |-> id,
      telegram_message_id |-> tg,
      chat_id |-> chat,
      user_id |-> user,
      timestamp |-> ts,
      has_mention |-> text.has_mention,
      is_question |-> text.is_question,
      message_length |-> text.len,
      priority_score |-> score,
      topic_summary |-> topic_summary,
      warning_sent |-> TRUE ] @@ MessageDefaults

\* Message(...) as save_message builds it (userbot.py:217-231), with the id
\* the flush assigns (userbot.py:235-236).
NewMessage(id, tg, chat, user, text, ts, score, topic_summary) ==
    [ id |-> id,
      telegram_message_id |-> tg,
      chat_id |-> chat,
      user_id |-> user,
      timestamp |-> ts,
      has_mention |-> text.has_mention,
      is_question |-> text.is_question,
      message_length |-> text.len,
      priority_score |-> score,
      topic_summary |-> topic_summary ] @@ MessageDefaults

IdleIntake == [pc |-> "idle", row |-> NULL]
IdleRun == [pc |-> "idle", total_messages |-> 0, unique_chats |-> 0, result |-> << >>]
NoAlert == [calls |-> 0, ok |-> 0, err |-> 0]

\* The state once SecretaryBot.startup (main.py:60-83) has run: the table is
\* empty and the cache holds the HighPriorityUser rows (userbot.py:352).  With
\* userbot.run_userbot_standalone (userbot.py:369-392) no bot is started:
\* _bot_app stays None and there are no commands, callbacks or timer.
\* DATABASE_URL names a PostgreSQL database and ollama is not installed.
Init ==
    /\ now = 0
    /\ messages = << >>
    /\ next_id = 1
    /\ high_priority_users = HighPriorityTable
    /\ bot_app \in BOOLEAN
    /\ is_sqlite = FALSE
    /\ refresh = NULL
    /\ intake = IdleIntake
    /\ run = [r \in Runners |-> IdleRun]
    /\ alerts = [m \in MsgIds |-> NoAlert]
    /\ claims = [m \in MsgIds |-> 0]
    /\ sent = << >>

\* The clock advances.
Tick ==
    /\ now + TickHours <= MaxTicks * TickHours
    /\ now' = now + TickHours
    /\ sent' = << >>
    /\ UNCHANGED << messages, next_id, high_priority_users, bot_app, is_sqlite, refresh, intake, run,
                    alerts, claims >>

\* ------------------------------------------------- database.get_session
\* Variant: the alert is dispatched before the block has committed the row.
session_commit_insert_late(table, row) == table

\* The block's commit (database.py:101) of an inserted row.
session_commit_insert(table, row) == table @@ (row.id :> row)

\* The table as the statements of another block see it: the committed rows
\* and, on the one connection of SQLite, the row save_message has flushed.
\* On that connection the commit of any block commits the flushed row too.
session_view ==
    IF is_sqlite /\ intake.pc = "flushed"
    THEN session_commit_insert(messages, intake.row)
    ELSE messages

\* The block's commit of an UPDATE: rows maps the ids the WHERE clause names
\* to their new values; an id with no row in the table updates nothing.
session_commit_update(table, rows) ==
    [m \in DOMAIN table |-> IF m \in DOMAIN rows THEN rows[m] ELSE table[m]]

\* ------------------------------------------------ userbot.save_message
\* Telegram numbers a new message; a capture delivered again keeps its number.
Captures(users, texts) ==
    { [telegram_message_id |-> next_id, chat_id |-> u, user_id |-> u,
       text |-> t, timestamp |-> now] : u \in users, t \in texts }
FreshCaptures(users) == Captures(users, Texts)
Redelivered ==
    { [telegram_message_id |-> messages[m].telegram_message_id,
       chat_id |-> messages[m].chat_id,
       user_id |-> messages[m].user_id,
       text |-> [has_mention |-> messages[m].has_mention,
                 is_question |-> messages[m].is_question,
                 len |-> messages[m].message_length],
       timestamp |-> messages[m].timestamp] : m \in DOMAIN messages }

\* What the ollama call of generate_topic_summary does: it answers with a
\* text of some words, ollama is not installed, the call times out, it raises.
OllamaWords == {0, 3, 7}
OllamaOutcomes ==
    {[kind |-> "answered", words |-> n] : n \in OllamaWords}
    \cup {[kind |-> k, words |-> 0] : k \in {"not_installed", "timed_out", "raised"}}

\* utils.generate_topic_summary (utils.py:279-345): None for a text of less
\* than 10 characters and on every exception, else the first five words of
\* the answer.  A hint is represented by the number of its words.
generate_topic_summary(message_len, outcome) ==
    IF message_len < 10 THEN NULL
    ELSE IF outcome.kind = "answered" THEN Some(Min(outcome.words, 5))
    ELSE NULL

\* Lines 199-210 and 217-231: the features, the membership of the sender in
\* the cache, the score and the Message built of them.
ScoredMessage(id, c, is_high_priority, topic_summary) ==
    NewMessage(id, c.telegram_message_id, c.chat_id, c.user_id, c.text, c.timestamp,
               calculate_priority_score(c.text.len, c.text.has_mention,
                                        c.text.is_question, is_high_priority),
               topic_summary)

\* Lines 198-236 where ollama is not installed: generate_topic_summary returns
\* at its import without an await (utils.py:293, utils.py:337-339), so the
\* cache is read, the score computed and the row flushed in one step.
save_message_flush(c) ==
    /\ intake.pc = "idle"
    /\ next_id <= MaxMsgs
    /\ intake' = [pc |-> "flushed",
                  row |-> ScoredMessage(next_id, c, c.user_id \in high_priority_users,
                              generate_topic_summary(c.text.len,
                                  [kind |-> "not_installed", words |-> 0]))]
    /\ next_id' = next_id + 1
    /\ sent' = << >>
    /\ UNCHANGED << now, messages, high_priority_users, bot_app, is_sqlite, refresh, run, alerts, claims >>

\* Variant: the membership is read when the row is built, after the await.
save_message_insert_rereading(outcome) ==
    /\ intake.pc = "summarizing"
    /\ intake' = [pc |-> "flushed",
                  row |-> ScoredMessage(next_id, intake.capture,
                              intake.capture.user_id \in high_priority_users,
                              generate_topic_summary(intake.capture.text.len, outcome))]
    /\ next_id' = next_id + 1
    /\ sent' = << >>
    /\ UNCHANGED << now, messages, high_priority_users, bot_app, is_sqlite, refresh, run,
                    alerts, claims >>

\* Variant: a failed ollama call ends save_message.
save_message_insert_aborting(outcome) ==
    /\ intake.pc = "summarizing"
    /\ IF outcome.kind = "answered"
       THEN /\ intake' = [pc |-> "flushed",
                          row |-> ScoredMessage(next_id, intake.capture,
                                      intake.is_high_priority,
                                      generate_topic_summary(intake.capture.text.len, outcome))]
            /\ next_id' = next_id + 1
       ELSE intake' = IdleIntake /\ UNCHANGED next_id
    /\ sent' = << >>
    /\ UNCHANGED << now, messages, high_priority_users, bot_app, is_sqlite, refresh, run,
                    alerts, claims >>

\* Where ollama is installed save_message has an await between the read of
\* the cache and the flush.  Lines 198-214: the features, the membership and
\* the score are locals of the call, which awaits generate_topic_summary.
save_message_score(c) ==
    /\ intake.pc = "idle"
    /\ next_id <= MaxMsgs
    /\ intake' = [pc |-> "summarizing", row |-> NULL, capture |-> c,
                  is_high_priority |-> c.user_id \in high_priority_users,
                  priority_score |-> ScoredMessage(NULL, c,
                      c.user_id \in high_priority_users, NULL).priority_score]
    /\ sent' = << >>
    /\ UNCHANGED << now, messages, next_id, high_priority_users, bot_app, is_sqlite,
                    refresh, run, alerts, claims >>

\* Lines 214-236: generate_topic_summary returned, whatever the ollama call
\* did; Message(...) is built of the locals and flushed.
save_message_insert(outcome) ==
    /\ intake.pc = "summarizing"
    /\ intake' = [pc |-> "flushed",
                  row |-> ScoredMessage(next_id, intake.capture, intake.is_high_priority,
                              generate_topic_summary(intake.capture.text.len, outcome))]
    /\ next_id' = next_id + 1
    /\ sent' = << >>
    /\ UNCHANGED << now, messages, high_priority_users, bot_app, is_sqlite, refresh, run,
                    alerts, claims >>

\* Variant: the comparison is strict.
ShouldWarn_strict(priority_score) == priority_score > warning_threshold_score

\* Line 241.
ShouldWarn(priority_score) == priority_score >= warning_threshold_score

Called(a) == [a EXCEPT !.calls = @ + 1]
Returned(a) == [a EXCEPT !.ok = @ + 1]
Raised(a) == [a EXCEPT !.err = @ + 1]

\* Line 237: the session block ends and commits.  Lines 239-252 follow without
\* an await: below the threshold save_message is done; at or above it
\* send_warning_for_message is called, which returns at once when get_bot_app()
\* is None (userbot.py:96-99) and otherwise awaits bot.send_message
\* (userbot.py:140-145).
save_message_commit ==
    /\ intake.pc = "flushed"
    /\ messages' = session_commit_insert(messages, intake.row)
    /\ IF ~ShouldWarn(intake.row.priority_score)
       THEN intake' = IdleIntake /\ UNCHANGED alerts
       ELSE /\ alerts' = [alerts EXCEPT ![intake.row.id] = Called(@)]
            /\ intake' = IF bot_app THEN [intake EXCEPT !.pc = "sending"]
                         ELSE IdleIntake
    /\ sent' = << >>
    /\ UNCHANGED << now, next_id, high_priority_users, bot_app, is_sqlite, refresh, run, claims >>

\* The commit raises: get_session rolls back, save_message logs (lines 261-265).
save_message_commit_fails ==
    /\ intake.pc = "flushed"
    /\ intake' = IdleIntake
    /\ sent' = << >>
    /\ UNCHANGED << now, messages, next_id, high_priority_users, bot_app, is_sqlite, refresh, run,
                    alerts, claims >>

\* ------------------------------------ userbot.send_warning_for_message
\* Variant: the flag is set without its timestamp.
WarningValues_flag_only(row) == [row EXCEPT !.warning_sent = TRUE]

\* Lines 152-155.
WarningValues(row) ==
    [row EXCEPT !.warning_sent = TRUE, !.warning_sent_at = Some(now)]

\* Lines 140-158: bot.send_message returned, then the flag is written in a
\* session of its own.  marked is whether that session committed; when it
\* raised it is rolled back and the error logged (lines 160-161).
send_warning_delivered(marked) ==
    /\ intake.pc = "sending"
    /\ alerts' = [alerts EXCEPT ![intake.row.id] = Returned(@)]
    /\ messages' = IF marked
                   THEN session_commit_update(messages,
                            [m \in {intake.row.id} |-> WarningValues(messages[m])])
                   ELSE messages
    /\ intake' = IdleIntake
    /\ sent' = << >>
    /\ UNCHANGED << now, next_id, high_priority_users, bot_app, is_sqlite, refresh, run, claims >>

\* Variant: the flag is written although bot.send_message raised.
send_warning_fails_marked ==
    /\ intake.pc = "sending"
    /\ alerts' = [alerts EXCEPT ![intake.row.id] = Raised(@)]
    /\ messages' = session_commit_update(messages,
                        [m \in {intake.row.id} |-> WarningValues(messages[m])])
    /\ intake' = IdleIntake
    /\ sent' = << >>
    /\ UNCHANGED << now, next_id, high_priority_users, bot_app, is_sqlite, refresh, run, claims >>

\* bot.send_message raised: lines 160-161.
send_warning_fails ==
    /\ intake.pc = "sending"
    /\ alerts' = [alerts EXCEPT ![intake.row.id] = Raised(@)]
    /\ intake' = IdleIntake
    /\ sent' = << >>
    /\ UNCHANGED << now, messages, next_id, high_priority_users, bot_app, is_sqlite, refresh, run, claims >>

\* ------------------------------------- userbot.refresh_high_priority_users
\* Lines 171-175: the cache is replaced by the user_id column of the table.
refresh_high_priority_users ==
    /\ high_priority_users' = HighPriorityTable
    /\ sent' = << >>
    /\ UNCHANGED << now, messages, next_id, bot_app, is_sqlite, refresh, intake, run, alerts, claims >>

\* Variant: the cache is emptied when the refresh starts and filled when the
\* rows have arrived.
refresh_select_clearing(table) ==
    /\ refresh = NULL
    /\ refresh' = Some(table)
    /\ high_priority_users' = {}
    /\ sent' = << >>
    /\ UNCHANGED << now, messages, next_id, bot_app, is_sqlite, intake, run, alerts, claims >>

\* The same call where the table changes while the program runs.  Lines
\* 171-174: the SELECT is awaited; table are the rows it reads.
refresh_select(table) ==
    /\ refresh = NULL
    /\ refresh' = Some(table)
    /\ sent' = << >>
    /\ UNCHANGED << now, messages, next_id, high_priority_users, bot_app, is_sqlite,
                    intake, run, alerts, claims >>

\* Line 175: the set built of the rows is assigned to _high_priority_users.
refresh_swap ==
    /\ refresh # NULL
    /\ high_priority_users' = refresh[1]
    /\ refresh' = NULL
    /\ sent' = << >>
    /\ UNCHANGED << now, messages, next_id, bot_app, is_sqlite, intake, run, alerts, claims >>

\* The SELECT raises: the error is logged (lines 178-179), the cache stays.
refresh_fails ==
    /\ refresh # NULL
    /\ refresh' = NULL
    /\ sent' = << >>
    /\ UNCHANGED << now, messages, next_id, high_priority_users, bot_app, is_sqlite,
                    intake, run, alerts, claims >>

Intake(users) ==
    \/ \E c \in FreshCaptures(users) \cup Redelivered : save_message_flush(c)
    \/ save_message_commit
    \/ save_message_commit_fails
    \/ \E marked \in BOOLEAN : send_warning_delivered(marked)
    \/ send_warning_fails
    \/ refresh_high_priority_users

\* --------------------------------------------------------- scheduler.py

\* Variant: the counts leave out the labeled messages.
InWindow_unlabeled(table, hours) ==
    {m \in DOMAIN table : table[m].timestamp >= now - hours /\ table[m].label = NULL}

\* Lines 75-92: the raw counts of the window.
InWindow(table, hours) ==
    {m \in DOMAIN table : table[m].timestamp >= now - hours}
CountMessages(table, hours) == Cardinality(InWindow(table, hours))
CountChats(table, hours) ==
    Cardinality({table[m].chat_id : m \in InWindow(table, hours)})

\* Variant: the WHERE clause without included_in_summary == False.
Selectable_ignoring_claim(row, cutoff_time) ==
    /\ row.timestamp >= cutoff_time
    /\ row.label = NULL
    /\ row.priority_score >= min_priority_score

\* Variant: the WHERE clause without label IS NULL.
Selectable_ignoring_label(row, cutoff_time) ==
    /\ row.timestamp >= cutoff_time
    /\ row.included_in_summary = FALSE
    /\ row.priority_score >= min_priority_score

\* Lines 42-47: the WHERE clause of the selection.
Selectable(row, cutoff_time) ==
    /\ row.timestamp >= cutoff_time
    /\ row.label = NULL
    /\ row.included_in_summary = FALSE
    /\ row.priority_score >= min_priority_score

\* Variant: ORDER BY priority_score DESC alone.
Before_by_score_only(a, b) == a.priority_score >= b.priority_score

\* Line 48: ORDER BY priority_score DESC, timestamp DESC.
Before(a, b) ==
    \/ a.priority_score > b.priority_score
    \/ a.priority_score = b.priority_score /\ a.timestamp >= b.timestamp

\* Lines 40-51: the rows the SELECT may return, as lists of ids; rows that tie
\* on both sort keys come in either order.
SelectMessages(table, hours, limit) ==
    LET ids == {m \in DOMAIN table : Selectable(table[m], now - hours)}
        n == Cardinality(ids)
        sorted == {s \in [1..n -> ids] :
                      /\ \A i, j \in 1..n : i # j => s[i] # s[j]
                      /\ \A i, j \in 1..n : i < j => Before(table[s[i]], table[s[j]])}
    IN {SubSeq(s, 1, Min(limit, n)) : s \in sorted}

Range(s) == {s[i] : i \in DOMAIN s}

\* Variant: the UPDATE sets the claim time and leaves the flag.
ClaimValues_timestamp_only(row) == [row EXCEPT !.summary_sent_at = Some(now)]

\* Variant: the UPDATE writes the row back as the SELECT read it, unlabeled.
ClaimValues_overwriting_label(row) ==
    [row EXCEPT !.included_in_summary = TRUE, !.summary_sent_at = Some(now),
                !.label = NULL, !.labeled_at = NULL]

\* Lines 59-62.
ClaimValues(row) ==
    [row EXCEPT !.included_in_summary = TRUE, !.summary_sent_at = Some(now)]

\* ------------------------------------------------ what the client is sent
\* Variant: nothing in the window is reported as a digest of no messages.
Quiet_as_empty_summary ==
    [kind |-> "summary", total_messages |-> 0, total_chats |-> 0, top |-> 0,
     cards |-> << >>]

\* Variant: the all-clear message does not carry the count.
AllClear_without_total(total_messages) == [kind |-> "all_clear", total_messages |-> 0]

\* send_simple_message of lines 115-118, of lines 126-130 and of lines 148-151.
Quiet == [kind |-> "quiet", total_messages |-> 0]
AllClear(total_messages) == [kind |-> "all_clear", total_messages |-> total_messages]
ErrorReport == [kind |-> "error"]

\* send_summary (bot.py:356-374): the header with the two counts and the
\* length of the list, and the cards that were sent.
Summary(total_messages, total_chats, top, cards) ==
    [kind |-> "summary", total_messages |-> total_messages,
     total_chats |-> total_chats, top |-> top, cards |-> cards]

\* bot.py:181, bot.py:98, bot.py:114-121 and bot.py:127-129.
Generating == [kind |-> "generating"]
NotFound == [kind |-> "not_found"]
Confirmation(label) == [kind |-> "confirmation", label |-> label]
CallbackError == [kind |-> "callback_error"]

\* The step hands out to bot.send_message or query.edit_message_text.  A
\* specification that does not observe the client chat keeps sent empty.
Sends(observed, out) == sent' = IF observed THEN out ELSE << >>

\* Variant: the quiet branch does not return, the cycle goes on to the SELECT.
cycle_stats_without_return(r, replies, observed) ==
    /\ bot_app
    /\ run[r].pc = "idle"
    /\ LET total_messages == CountMessages(session_view, summary_interval_hours)
           unique_chats == CountChats(session_view, summary_interval_hours)
       IN /\ run' = [run EXCEPT ![r] =
                        [pc |-> "select", total_messages |-> total_messages,
                         unique_chats |-> unique_chats, result |-> << >>]]
          /\ Sends(observed, replies \o (IF total_messages = 0 THEN << Quiet >> ELSE << >>))
    /\ messages' = session_view
    /\ UNCHANGED << now, next_id, high_priority_users, bot_app, is_sqlite, refresh, intake,
                    alerts, claims >>

\* generate_and_send_summary, lines 103-119: the counts; nothing in the window
\* sends the quiet message and ends the cycle.  replies is what the caller
\* sent before the cycle.
cycle_stats(r, replies, observed) ==
    /\ bot_app
    /\ run[r].pc = "idle"
    /\ LET total_messages == CountMessages(session_view, summary_interval_hours)
           unique_chats == CountChats(session_view, summary_interval_hours)
       IN IF total_messages = 0
          THEN /\ run' = [run EXCEPT ![r] = IdleRun]
               /\ Sends(observed, replies \o << Quiet >>)
          ELSE /\ run' = [run EXCEPT ![r] =
                            [pc |-> "select", total_messages |-> total_messages,
                             unique_chats |-> unique_chats, result |-> << >>]]
               /\ Sends(observed, replies)
    /\ messages' = session_view
    /\ UNCHANGED << now, next_id, high_priority_users, bot_app, is_sqlite, refresh, intake,
                    alerts, claims >>

\* What the except branch of generate_and_send_summary (lines 145-153) hands
\* out: the error report, or nothing when that send raised too (line 152).
Report(reported) == IF reported THEN << ErrorReport >> ELSE << >>

\* get_message_stats raises (lines 75-92, database.py:102-104): the cycle ends
\* in the except branch.
get_message_stats_fails(r, replies, observed, reported) ==
    /\ bot_app
    /\ run[r].pc = "idle"
    /\ run' = [run EXCEPT ![r] = IdleRun]
    /\ Sends(observed, replies \o Report(reported))
    /\ UNCHANGED << now, messages, next_id, high_priority_users, bot_app, is_sqlite,
                    refresh, intake, alerts, claims >>

\* scheduled_summary_job (lines 167-175): is_quiet_hours() is False.
scheduled_summary_job(observed) == cycle_stats("timer", << >>, observed)

\* Variant: the manual trigger goes to the selection without the counts.
trigger_summary_now_direct(observed) ==
    /\ bot_app
    /\ run["manual"].pc = "idle"
    /\ run' = [run EXCEPT !["manual"] = [IdleRun EXCEPT !.pc = "select"]]
    /\ Sends(observed, << >>)
    /\ UNCHANGED << now, messages, next_id, high_priority_users, bot_app, is_sqlite,
                    refresh, intake, alerts, claims >>

\* trigger_summary_now (lines 231-238).
trigger_summary_now(observed) == cycle_stats("manual", << >>, observed)

\* Variant: the command does not test who sent it.
handle_summary_command_unchecked(user, observed) ==
    cycle_stats("manual", << Generating >>, observed)

\* bot.handle_summary_command (lines 173-185).
handle_summary_command(user, observed) ==
    IF user # client_user_id
    THEN bot_app /\ run["manual"].pc = "idle" /\ UNCHANGED vars
    ELSE cycle_stats("manual", << Generating >>, observed)

\* get_unlabeled_messages, lines 36-51: the SELECT.  An empty list skips the
\* update (line 54) and the cycle sends the all-clear message (lines 124-131).
get_unlabeled_messages_select(r, limit, observed) ==
    /\ run[r].pc = "select"
    /\ \E result \in SelectMessages(session_view, summary_interval_hours, limit) :
          IF result = << >>
          THEN /\ run' = [run EXCEPT ![r] = IdleRun]
               /\ Sends(observed, << AllClear(run[r].total_messages) >>)
               /\ messages' = session_view
          ELSE /\ run' = [run EXCEPT ![r].pc = "claim", ![r].result = result]
               /\ Sends(observed, << >>)
               /\ UNCHANGED messages
    /\ UNCHANGED << now, next_id, high_priority_users, bot_app, is_sqlite, refresh, intake,
                    alerts, claims >>

\* Variant: the UPDATE repeats the WHERE clause of the SELECT instead of naming
\* the selected ids.
ClaimedIds_by_filter(r) ==
    {m \in DOMAIN messages : Selectable(messages[m], now - summary_interval_hours)}

\* Line 55 and line 58: WHERE id IN (the ids of the selected rows).
ClaimedIds(r) == Range(run[r].result)

\* get_unlabeled_messages, lines 54-65: the UPDATE of the selected ids, the
\* commit and the return of the list.
get_unlabeled_messages_claim(r) ==
    /\ run[r].pc = "claim"
    /\ messages' = session_commit_update(session_view,
                        [m \in ClaimedIds(r) \cap DOMAIN session_view |->
                            ClaimValues(session_view[m])])
    /\ claims' = [m \in DOMAIN claims |->
                    IF m \in Range(run[r].result) THEN claims[m] + 1 ELSE claims[m]]
    /\ run' = [run EXCEPT ![r].pc = "deliver"]
    /\ sent' = << >>
    /\ UNCHANGED << now, next_id, high_priority_users, bot_app, is_sqlite, refresh, intake, alerts >>

\* Variant: the cycle runs the query again.
get_unlabeled_messages_fails_retrying(r, observed, reported) ==
    /\ run[r].pc \in {"select", "claim"}
    /\ run' = [run EXCEPT ![r].pc = "select", ![r].result = << >>]
    /\ Sends(observed, << >>)
    /\ UNCHANGED << now, messages, next_id, high_priority_users, bot_app, is_sqlite, refresh, intake,
                    alerts, claims >>

\* Variant: the UPDATE has marked the first selected row when it raises, and
\* that row stays marked.
get_unlabeled_messages_fails_partial(r, observed, reported) ==
    /\ run[r].pc \in {"select", "claim"}
    /\ run' = [run EXCEPT ![r] = IdleRun]
    /\ Sends(observed, Report(reported))
    /\ messages' = IF run[r].pc = "claim"
                   THEN session_commit_update(messages,
                            [m \in {run[r].result[1]} |-> ClaimValues(messages[m])])
                   ELSE messages
    /\ UNCHANGED << now, next_id, high_priority_users, bot_app, is_sqlite, refresh, intake,
                    alerts, claims >>

\* The SELECT, the UPDATE or the commit raises: rolled back
\* (database.py:102-104), the exception leaves get_unlabeled_messages and the
\* cycle ends in the except branch (lines 145-153).
get_unlabeled_messages_fails(r, observed, reported) ==
    /\ run[r].pc \in {"select", "claim"}
    /\ run' = [run EXCEPT ![r] = IdleRun]
    /\ Sends(observed, Report(reported))
    /\ UNCHANGED << now, messages, next_id, high_priority_users, bot_app, is_sqlite, refresh, intake,
                    alerts, claims >>

\* bot.send_summary (bot.py:341-392) returned: header, one card per message of
\* the returned list, footer.
send_summary_delivered(r, observed) ==
    /\ run[r].pc = "deliver"
    /\ Sends(observed,
             << Summary(run[r].total_messages, run[r].unique_chats,
                        Len(run[r].result), run[r].result) >>)
    /\ run' = [run EXCEPT ![r] = IdleRun]
    /\ UNCHANGED << now, messages, next_id, high_priority_users, bot_app, is_sqlite, refresh, intake,
                    alerts, claims >>

\* Variant: the handler of a failed delivery gives the messages back.
UnclaimValues(row) ==
    [row EXCEPT !.included_in_summary = FALSE, !.summary_sent_at = NULL]

\* Lines 145-153 write nothing to the table.
DeliveryFailureValues(row) == row

\* Variant: when the error report cannot be sent either, the exception
\* leaves generate_and_send_summary.
send_summary_fails_raising(r, parts, observed, reported) ==
    /\ run[r].pc = "deliver"
    /\ parts <= Len(run[r].result) + 1
    /\ LET cards == IF parts = 0 THEN << >> ELSE SubSeq(run[r].result, 1, parts - 1)
       IN Sends(observed,
                (IF parts = 0 THEN << >>
                 ELSE << Summary(run[r].total_messages, run[r].unique_chats,
                                 Len(run[r].result), cards) >>)
                \o Report(reported))
    /\ run' = [run EXCEPT ![r] = IF reported THEN IdleRun
                                 ELSE [IdleRun EXCEPT !.pc = "raised"]]
    /\ UNCHANGED << now, messages, next_id, high_priority_users, bot_app, is_sqlite, refresh, intake,
                    alerts, claims >>

\* bot.send_summary raised after parts of its sends had returned: none when
\* the header raised, the header and parts - 1 cards otherwise (the footer
\* raised when every card was sent).  generate_and_send_summary catches it
\* (line 145), tries to report the error and returns (lines 146-153).
send_summary_fails(r, parts, observed, reported) ==
    /\ run[r].pc = "deliver"
    /\ parts <= Len(run[r].result) + 1
    /\ LET cards == IF parts = 0 THEN << >> ELSE SubSeq(run[r].result, 1, parts - 1)
       IN Sends(observed,
                (IF parts = 0 THEN << >>
                 ELSE << Summary(run[r].total_messages, run[r].unique_chats,
                                 Len(run[r].result), cards) >>)
                \o Report(reported))
    /\ messages' = session_commit_update(messages,
                        [m \in Range(run[r].result) |-> DeliveryFailureValues(messages[m])])
    /\ run' = [run EXCEPT ![r] = IdleRun]
    /\ UNCHANGED << now, next_id, high_priority_users, bot_app, is_sqlite, refresh, intake, alerts, claims >>

\* Whether the error report was sent shows in the client chat only.
Reports(observed) == IF observed THEN BOOLEAN ELSE {TRUE}

\* generate_and_send_summary from line 122 on, for the cycle of runner r.
Cycle(r, limit, observed) ==
    \/ get_unlabeled_messages_select(r, limit, observed)
    \/ get_unlabeled_messages_claim(r)
    \/ \E reported \in Reports(observed) : get_unlabeled_messages_fails(r, observed, reported)
    \/ send_summary_delivered(r, observed)
    \/ \E parts \in 0..Len(run[r].result) + 1, reported \in Reports(observed) :
          send_summary_fails(r, parts, observed, reported)

Selector(limit, observed) ==
    \/ scheduled_summary_job(observed)
    \/ \E user \in BotUsers : handle_summary_command(user, observed)
    \/ \E r \in Runners : Cycle(r, limit, observed)

\* ------------------------------------------------ bot.handle_label_callback
\* Variant: the label update also resets the summary flag.
LabelValues_requeue(row, label) ==
    [row EXCEPT !.label = Some(label), !.labeled_at = Some(now),
                !.included_in_summary = FALSE, !.summary_sent_at = NULL]

\* Variant: labeling also acknowledges the alert.
LabelValues_acknowledging(row, label) ==
    [row EXCEPT !.label = Some(label), !.labeled_at = Some(now),
                !.warning_sent = TRUE, !.warning_sent_at = Some(now)]

\* Lines 105-108.
LabelValues(row, label) ==
    [row EXCEPT !.label = Some(label), !.labeled_at = Some(now)]

\* int(message_id_str) (line 80): the decimal numerals are the texts it
\* accepts here; on any other text it raises ValueError.
Numerals == 0..9
IsNumeral(text) == \E n \in Numerals : ToString(n) = text
ParseInt(text) == CHOOSE n \in Numerals : ToString(n) = text

\* Variant: the update is issued without looking the message up.
Found_unchecked(table, message_id) == TRUE

\* Lines 92-97: scalar_one_or_none() of the SELECT by id.
Found(table, message_id) == message_id \in DOMAIN table

\* Variant: a fourth label is accepted.
Labels_with_urgent == {"high", "medium", "low", "urgent"}

\* Line 82.
Labels == {"high", "medium", "low"}

\* Lines 63-129.  data is query.data.split(":") (line 74).  A payload of the
\* wrong shape or with an unknown label is logged and dropped (lines 75-84); a
\* message id that is no integer raises and the error is shown (lines 125-129).
\* update.effective_user is not read.
handle_label_callback(user, data, observed) ==
    /\ bot_app
    /\ IF Len(data) # 3 \/ data[1] # "label"
       THEN Sends(observed, << >>) /\ UNCHANGED messages
       ELSE IF ~IsNumeral(data[2])
       THEN Sends(observed, << CallbackError >>) /\ UNCHANGED messages
       ELSE IF data[3] \notin Labels
       THEN Sends(observed, << >>) /\ UNCHANGED messages
       ELSE LET message_id == ParseInt(data[2])
                label == data[3]
            IN IF ~Found(session_view, message_id)
               THEN Sends(observed, << NotFound >>) /\ messages' = session_view
               ELSE /\ messages' = session_commit_update(session_view,
                            [m \in {message_id} |-> LabelValues(session_view[m], label)])
                    /\ Sends(observed, << Confirmation(label) >>)
    /\ UNCHANGED << now, next_id, high_priority_users, bot_app, is_sqlite, refresh, intake, run,
                    alerts, claims >>

\* The payload of a card's button (bot.create_priority_keyboard, lines 38-60).
LabelData(message_id, label) == << "label", ToString(message_id), label >>

\* The labels callbacks carry: two of the buttons and one that is no label.
CallbackLabels == {"high", "low", "urgent"}

\* Payloads of the wrong shape: two parts, another prefix, an id that is no
\* integer.
Malformed ==
    { << "label", "1" >>, << "snooze", "1", "high" >>, << "label", "one", "high" >> }

ButtonPayloads(ids, labels) == {LabelData(m, l) : m \in ids, l \in labels}

\* calls are the callbacks that arrive, each the user who sent it and its
\* payload.
Resolver(calls, observed) ==
    \E call \in calls : handle_label_callback(call[1], call[2], observed)

Next ==
    \/ Tick
    \/ Intake(Senders)
    \/ Selector(max_messages_per_summary, FALSE)
    \/ Resolver({client_user_id} \X ButtonPayloads(MsgIds, CallbackLabels), FALSE)

Spec == Init /\ [][Next]_vars

\* ------------------------------------------------- the ledger specification
\* The timer's cycles and the callbacks on a table that earlier captures and
\* cycles have filled, with the client chat observed.
LedgerTimes == {0, TickHours - 1, TickHours}
LedgerSources ==
    { << 2, PlainText >>, << 2, MentionQuestion >>, << 3, PlainText >> }
LedgerCaptures ==
    { [chat_id |-> src[1], user_id |-> src[1], text |-> src[2], timestamp |-> ts] :
        src \in LedgerSources, ts \in LedgerTimes }

\* The row save_message and send_warning_for_message leave of capture c: at or
\* above the threshold the alert was sent when the message was captured.
CapturedRow(id, c) ==
    LET score == calculate_priority_score(c.text.len, c.text.has_mention,
                     c.text.is_question, c.user_id \in HighPriorityTable)
        row == NewMessage(id, id, c.chat_id, c.user_id, c.text, c.timestamp, score, NULL)
    IN IF ShouldWarn(score)
       THEN [row EXCEPT !.warning_sent = TRUE, !.warning_sent_at = Some(c.timestamp)]
       ELSE row

\* The callbacks of the ledger specification: the client presses a button or
\* sends a payload the handler rejects, another user presses a button.
LedgerCalls ==
    ({client_user_id} \X
        (ButtonPayloads(1..LedgerRows, {"high"}) \cup Malformed \cup {LabelData(1, "urgent")}))
    \cup ((BotUsers \ {client_user_id}) \X ButtonPayloads(1..LedgerRows, {"high"}))

\* The tables of n rows; claimed are the rows an earlier cycle of this hour
\* returned.
Ledger(captures, claimed) ==
    [m \in DOMAIN captures |->
        IF m \in claimed
        THEN [CapturedRow(m, captures[m]) EXCEPT
                 !.included_in_summary = TRUE, !.summary_sent_at = Some(TickHours)]
        ELSE CapturedRow(m, captures[m])]

InitLedger ==
    \E n \in 0..LedgerRows :
      \E captures \in [1..n -> LedgerCaptures], claimed \in SUBSET (1..n) :
        \* ids are assigned in the order of capture
        /\ \A i, j \in 1..n : i < j => captures[i].timestamp <= captures[j].timestamp
        /\ now = TickHours
        /\ messages = Ledger(captures, claimed)
        /\ next_id = n + 1
        /\ high_priority_users = HighPriorityTable
        /\ bot_app = TRUE
        /\ is_sqlite = FALSE
        /\ refresh = NULL
        /\ intake = IdleIntake
        /\ run = [r \in Runners |-> IdleRun]
        /\ alerts = [m \in 1..LedgerRows |->
                        IF m <= n /\ messages[m].warning_sent
                        THEN Returned(Called(NoAlert)) ELSE NoAlert]
        /\ claims = [m \in 1..LedgerRows |-> IF m \in claimed THEN 1 ELSE 0]
        /\ sent = << >>

NextLedger ==
    \/ scheduled_summary_job(TRUE)
    \/ Cycle("timer", LedgerCap, TRUE)
    \/ Resolver(LedgerCalls, TRUE)

SpecLedger == InitLedger /\ [][NextLedger]_vars

\* ------------------------------------------------- the SQLite specification
\* DATABASE_URL names an SQLite database: the captures and the timer's cycles
\* where no statement of the cycle raises.
InitSqlite ==
    /\ now = 0
    /\ messages = << >>
    /\ next_id = 1
    /\ high_priority_users = HighPriorityTable
    /\ bot_app = TRUE
    /\ is_sqlite = TRUE
    /\ refresh = NULL
    /\ intake = IdleIntake
    /\ run = [r \in Runners |-> IdleRun]
    /\ alerts = [m \in MsgIds |-> NoAlert]
    /\ claims = [m \in MsgIds |-> 0]
    /\ sent = << >>

NextSqlite ==
    \/ Tick
    \/ \E c \in FreshCaptures(Senders) : save_message_flush(c)
    \/ save_message_commit
    \/ save_message_commit_fails
    \/ send_warning_delivered(TRUE)
    \/ send_warning_fails
    \/ scheduled_summary_job(FALSE)
    \/ get_unlabeled_messages_select("timer", max_messages_per_summary, FALSE)
    \/ get_unlabeled_messages_claim("timer")
    \/ send_summary_delivered("timer", FALSE)

SpecSqlite == InitSqlite /\ [][NextSqlite]_vars

\* ------------------------------------------------ the trigger specification
\* The cycles of the timer and of the manual triggers on a table that earlier
\* captures and cycles have filled, with the client chat observed.
TimerCycle ==
    \/ scheduled_summary_job(TRUE)
    \/ \E reported \in BOOLEAN : get_message_stats_fails("timer", << >>, TRUE, reported)
    \/ Cycle("timer", LedgerCap, TRUE)

\* trigger_summary_now runs the cycle as the timer does.
ManualCycle ==
    \/ trigger_summary_now(TRUE)
    \/ \E reported \in BOOLEAN : get_message_stats_fails("manual", << >>, TRUE, reported)
    \/ Cycle("manual", LedgerCap, TRUE)

\* /summary replies before it starts the cycle.
CommandStart(user) ==
    \/ handle_summary_command(user, TRUE)
    \/ /\ user = client_user_id
       /\ \E reported \in BOOLEAN :
             get_message_stats_fails("manual", << Generating >>, TRUE, reported)

NextTrigger ==
    \/ TimerCycle
    \/ ManualCycle
    \/ \E user \in BotUsers : CommandStart(user)

SpecTrigger == InitLedger /\ [][NextTrigger]_vars

\* The timer's cycles alone.  Every await of a cycle returns or raises, so a
\* cycle that has started takes its next step.
SpecCycle == InitLedger /\ [][TimerCycle]_vars /\ WF_vars(Cycle("timer", LedgerCap, TRUE))

\* The timer's cycles where no storage statement raises and nothing is captured
\* or labeled: the job is fired again after every cycle (scheduler.py:198-206)
\* and every await returns.
NextDrain ==
    \/ scheduled_summary_job(TRUE)
    \/ get_unlabeled_messages_select("timer", LedgerCap, TRUE)
    \/ get_unlabeled_messages_claim("timer")
    \/ send_summary_delivered("timer", TRUE)
    \/ \E parts \in 0..Len(run["timer"].result) + 1, reported \in BOOLEAN :
          send_summary_fails("timer", parts, TRUE, reported)

SpecDrain == InitLedger /\ [][NextDrain]_vars /\ WF_vars(NextDrain)

\* ------------------------------------------------- the intake specification
\* Captures of two senders while ollama is installed and the HighPriorityUser
\* table changes: save_message with its await of generate_topic_summary, the
\* alert, and refresh_high_priority_users with its await of the SELECT.
IntakeSenders == {2, 3}
RegistryTables == {{3}, {2}}
ShortQuestion == [has_mention |-> FALSE, is_question |-> TRUE, len |-> 9]
Plain100 == [has_mention |-> FALSE, is_question |-> FALSE, len |-> 100]
Mention101 == [has_mention |-> TRUE, is_question |-> FALSE, len |-> 101]
IntakeTexts == {ShortQuestion, Plain100, Mention101}

InitIntake ==
    /\ now = 0
    /\ messages = << >>
    /\ next_id = 1
    /\ high_priority_users = HighPriorityTable
    /\ bot_app \in BOOLEAN
    /\ is_sqlite = FALSE
    /\ refresh = NULL
    /\ intake = IdleIntake
    /\ run = [r \in Runners |-> IdleRun]
    /\ alerts = [m \in MsgIds |-> NoAlert]
    /\ claims = [m \in MsgIds |-> 0]
    /\ sent = << >>

NextIntake ==
    \/ \E c \in Captures(IntakeSenders, IntakeTexts) : save_message_score(c)
    \/ \E outcome \in OllamaOutcomes : save_message_insert(outcome)
    \/ save_message_commit
    \/ save_message_commit_fails
    \/ \E marked \in BOOLEAN : send_warning_delivered(marked)
    \/ send_warning_fails
    \/ \E table \in RegistryTables : refresh_select(table)
    \/ refresh_swap
    \/ refresh_fails

SpecIntake == InitIntake /\ [][NextIntake]_vars

\* The same captures with the timer's cycles and the client's callbacks.
NextLifecycle ==
    \/ NextIntake
    \/ scheduled_summary_job(FALSE)
    \/ Cycle("timer", max_messages_per_summary, FALSE)
    \/ Resolver({client_user_id} \X ButtonPayloads(MsgIds, {"high"}), FALSE)

SpecLifecycle == InitIntake /\ [][NextLifecycle]_vars

\* ====================================================================
\* Properties
\* ====================================================================
Committed == DOMAIN messages

\* Two rows of the same capture: the same Telegram message of the same chat.
SameCapture(a, b) ==
    /\ a.chat_id = b.chat_id
    /\ a.telegram_message_id = b.telegram_message_id

\* C1: once a message's label is non-null, no step changes it; a later
\* callback carrying another label does not overwrite it.
C1_LabelFinal ==
    [][\A m \in Committed :
          messages[m].label # NULL => messages'[m].label = messages[m].label]_vars

\* C2: no message is returned, and so claimed and delivered, by two runs of
\* the batch selector, however the runs overlap.
C2_NoDoubleClaim == \A m \in MsgIds : claims[m] <= 1

\* C3: the SELECT of a selector run never returns a message that a completed
\* run has already returned.
C3_ClaimPermanent ==
    [][\A r \in Runners :
          (run[r].pc = "select" /\ run'[r].pc = "claim")
              => \A m \in Range(run'[r].result) : claims[m] = 0]_vars

\* C3 witness: message a was returned by a completed run and is unlabeled, in
\* the window and above the minimum score; a run that selected afterwards
\* (it holds the later message b) did not return a.
C3_Witness ==
    \E r \in Runners, a, b \in Committed :
        /\ a < b
        /\ claims[a] = 1
        /\ messages[a].label = NULL
        /\ messages[a].priority_score >= min_priority_score
        /\ messages[a].timestamp >= now - summary_interval_hours
        /\ run[r].pc = "claim"
        /\ run[r].result = << b >>

\* C4: included_in_summary is monotone: no step takes it from true to false.
C4_ClaimFlagMonotone ==
    [][\A m \in Committed :
          messages[m].included_in_summary => messages'[m].included_in_summary]_vars

\* C4 witness: a message claimed at hour 0 was labeled later and after an
\* alert, and is still claimed.
C4_Witness ==
    \E m \in Committed :
        /\ messages[m].included_in_summary
        /\ messages[m].summary_sent_at = Some(0)
        /\ messages[m].labeled_at = Some(TickHours)
        /\ messages[m].warning_sent

\* C5: a message is alerted at most once, also when the intake pipeline runs
\* again for the same capture.
C5_AlertedOncePerCapture ==
    \A a, b \in Committed :
        (a # b /\ SameCapture(messages[a], messages[b]))
            => alerts[a].ok + alerts[b].ok <= 1

\* C6: whenever send_warning_for_message has been called for a message (the
\* alert is in flight, sent or failed), the message's row is committed.
C6_PersistBeforeAlert ==
    /\ \A m \in MsgIds : alerts[m].calls >= 1 => m \in Committed
    /\ intake.pc = "sending" => intake.row.id \in Committed

\* C6 witness: an alert is in flight for a committed row.
C6_Witness ==
    /\ intake.pc = "sending"
    /\ alerts[intake.row.id].calls = 1
    /\ alerts[intake.row.id].ok = 0
    /\ intake.row.id \in Committed

\* C7: a second label callback with the same message id and the same label
\* leaves label and labeled_at as they were.
C7_RelabelIdempotent ==
    [][\A m \in Committed, l \in Labels :
          (messages[m].label = Some(l)
              /\ \E user \in BotUsers : handle_label_callback(user, LabelData(m, l), FALSE))
              => /\ messages'[m].label = messages[m].label
                 /\ messages'[m].labeled_at = messages[m].labeled_at]_vars

\* C8: for a committed message the alert dispatch has been attempted exactly
\* when its score is at least the warning threshold.
C8_AlertIffThreshold ==
    \A m \in Committed :
        (alerts[m].calls >= 1) <=> (messages[m].priority_score >= warning_threshold_score)

\* C8 witness: a message with score 5 (mention and question, length 50) was
\* alerted and a message with score 4 was not.
C8_Witness ==
    \E a, b \in Committed :
        /\ messages[a].priority_score = warning_threshold_score
        /\ messages[a].has_mention /\ messages[a].is_question
        /\ messages[a].message_length = 50
        /\ alerts[a].ok = 1
        /\ messages[b].priority_score = warning_threshold_score - 1
        /\ alerts[b].calls = 0
        /\ intake.pc = "idle"

\* C9: warning_sent is true only if bot.send_message returned for the
\* message; when the send raised or the bot was unavailable the row stays
\* committed with warning_sent false, and the dispatch is not tried again.
C9_AlertSentOnlyOnSuccess ==
    \A m \in MsgIds :
        /\ alerts[m].calls <= 1
        /\ alerts[m].ok + alerts[m].err <= alerts[m].calls
        /\ m \in Committed /\ messages[m].warning_sent => alerts[m].ok = 1
        /\ (alerts[m].calls = 1 /\ alerts[m].ok = 0)
              => /\ m \in Committed
                 /\ ~messages[m].warning_sent
                 /\ messages[m].warning_sent_at = NULL

\* C9 witness: one alert failed and its row is unflagged, another was sent
\* and its row is flagged.
C9_Witness ==
    \E a, b \in Committed :
        /\ alerts[a].err = 1 /\ ~messages[a].warning_sent
        /\ alerts[b].ok = 1 /\ messages[b].warning_sent
        /\ intake.pc = "idle"

\* C10: every message the SELECT of a run returns is, when selected, inside
\* the lookback window, unlabeled, unclaimed and at or above the minimum score.
C10_SelectionFilter ==
    [][\A r \in Runners :
          (run[r].pc = "select" /\ run'[r].pc = "claim")
              => \A m \in Range(run'[r].result) :
                    /\ m \in Committed
                    /\ messages[m].timestamp >= now - summary_interval_hours
                    /\ messages[m].label = NULL
                    /\ messages[m].included_in_summary = FALSE
                    /\ messages[m].priority_score >= min_priority_score]_vars

\* C10 witness: a run returned the later message b and left out a, which is
\* below the minimum score.
C10_Witness ==
    \E r \in Runners, a, b \in Committed :
        /\ a < b
        /\ messages[a].priority_score < min_priority_score
        /\ run[r].pc = "claim"
        /\ run[r].result = << b >>

\* The list the SELECT step of runner r returns: the step takes r from "select"
\* to "claim" with the list, or ends the cycle with the empty list; it is not
\* the step of a SELECT that raised.
SelectStep(r) ==
    /\ run[r].pc = "select"
    /\ run'[r].pc \in {"claim", "idle"}
    /\ ~ \E reported \in BOOLEAN : get_unlabeled_messages_fails(r, TRUE, reported)
Returned_list(r) == run'[r].result

\* The messages that are eligible in the current state.
Eligible ==
    {m \in DOMAIN messages :
        /\ messages[m].timestamp >= now - summary_interval_hours
        /\ messages[m].label = NULL
        /\ ~messages[m].included_in_summary
        /\ messages[m].priority_score >= min_priority_score}

RanksAbove(a, b) ==
    \/ a.priority_score > b.priority_score
    \/ a.priority_score = b.priority_score /\ a.timestamp > b.timestamp

\* C11: the list a selector run returns has at most N elements, holds eligible
\* messages only and each once, is ordered by score descending and on equal
\* scores by capture timestamp descending, leaves out no eligible message that
\* ranks strictly above a returned one, and holds every eligible message when
\* fewer than N are eligible.
C11_TopN ==
    [][SelectStep("timer") =>
        LET list == Returned_list("timer")
            n == Len(list)
        IN /\ n <= LedgerCap
           /\ n = Min(LedgerCap, Cardinality(Eligible))
           /\ Range(list) \subseteq Eligible
           /\ \A i, j \in 1..n : i # j => list[i] # list[j]
           /\ \A i, j \in 1..n : i < j =>
                 ~RanksAbove(messages[list[j]], messages[list[i]])
           /\ \A e \in Eligible \ Range(list), i \in 1..n :
                 ~RanksAbove(messages[e], messages[list[i]])]_vars

\* C11 witness: three messages are eligible and the cap is two; the run holds
\* two messages of equal score, the later capture first, and left out the
\* third, which has a lower score.
C11_Witness ==
    /\ run["timer"].pc = "claim"
    /\ Len(run["timer"].result) = LedgerCap
    /\ Cardinality(Eligible) = LedgerCap + 1
    /\ LET list == run["timer"].result
       IN /\ messages[list[1]].priority_score = messages[list[2]].priority_score
          /\ messages[list[1]].timestamp > messages[list[2]].timestamp
          /\ \E e \in Eligible \ Range(list) :
                messages[e].priority_score < messages[list[2]].priority_score

\* C12: the UPDATE of a selector run sets included_in_summary and
\* summary_sent_at on exactly the messages of its list and changes nothing
\* else: the other columns of those rows and all other rows stay as they are,
\* and no row is added.
C12_ExactClaimSet ==
    [][\A r \in Runners :
          (run[r].pc = "claim" /\ run'[r].pc = "deliver") =>
              /\ DOMAIN messages' = DOMAIN messages
              /\ \A m \in DOMAIN messages :
                    IF m \in Range(run[r].result)
                    THEN messages'[m] =
                            [messages[m] EXCEPT !.included_in_summary = TRUE,
                                                !.summary_sent_at = Some(now)]
                    ELSE messages'[m] = messages[m]]_vars

\* C12 witness: a run claimed message a; message b, which is unlabeled, in the
\* window and above the minimum score but was not in the list, is unclaimed.
C12_Witness ==
    \E r \in Runners, a, b \in Committed :
        /\ run[r].pc = "deliver"
        /\ run[r].result = << a >>
        /\ messages[a].included_in_summary
        /\ messages[a].summary_sent_at = Some(now)
        /\ b \in Eligible
        /\ claims[b] = 0

\* C13: when send_summary raises, after none, some or all of the cards, every
\* message of the run's list stays claimed with its claim timestamp, and no
\* message that a run has returned is returned by a later run.
C13_NoUnclaimOnFailure ==
    [][/\ (run["timer"].pc = "deliver" /\ ErrorReport \in Range(sent')) =>
              \A m \in Range(run["timer"].result) :
                  /\ messages'[m].included_in_summary
                  /\ messages'[m].summary_sent_at = messages[m].summary_sent_at
       /\ \A m \in DOMAIN messages :
              messages[m].included_in_summary => messages'[m].included_in_summary
       /\ SelectStep("timer") =>
              \A m \in Range(Returned_list("timer")) :
                  claims[m] = 0 /\ ~messages[m].included_in_summary]_vars

\* C13 witness: the header of a digest of two messages and its first card were
\* sent, then a send raised; both messages are claimed.
C13_Witness ==
    \E a, b \in Committed, total, chats \in 1..LedgerRows :
        /\ a # b
        /\ sent = << Summary(total, chats, 2, << a >>), ErrorReport >>
        /\ messages[a].included_in_summary /\ claims[a] = 1
        /\ messages[b].included_in_summary /\ claims[b] = 1
        /\ messages[a].label = NULL /\ messages[b].label = NULL
        /\ \A m \in Committed \ {a, b} : ~messages[m].included_in_summary

\* C14: a label callback for a message id that has no row reports not-found
\* and leaves the table as it is.
C14_NotFound ==
    [][\A call \in LedgerCalls :
          (/\ Len(call[2]) = 3 /\ call[2][1] = "label"
           /\ call[2][3] \in {"high", "medium", "low"}
           /\ \E m \in 1..LedgerRows : ToString(m) = call[2][2] /\ m \notin DOMAIN messages
           /\ handle_label_callback(call[1], call[2], TRUE))
              => /\ messages' = messages
                 /\ sent' = << [kind |-> "not_found"] >>]_vars

\* C14 witness: not-found was reported on a table that holds rows, none of
\* them labeled.
C14_Witness ==
    /\ sent = << [kind |-> "not_found"] >>
    /\ Cardinality(DOMAIN messages) = LedgerRows - 1
    /\ \A m \in DOMAIN messages : messages[m].label = NULL /\ messages[m].labeled_at = NULL

\* C15: a label callback whose payload has not three parts, has another
\* prefix than "label", has an id that is no integer or has a label other
\* than high, medium, low leaves every row as it is.
C15_InputRejected ==
    [][\A call \in LedgerCalls :
          ((\/ Len(call[2]) # 3
            \/ call[2][1] # "label"
            \/ ~ \E n \in 0..9 : ToString(n) = call[2][2]
            \/ call[2][3] \notin {"high", "medium", "low"})
           /\ handle_label_callback(call[1], call[2], TRUE))
              => messages' = messages]_vars

\* C15 witness: a payload whose id is no integer was rejected; the table holds
\* a row and it is unlabeled.
C15_Witness ==
    /\ sent = << [kind |-> "callback_error"] >>
    /\ 1 \in DOMAIN messages
    /\ \A m \in DOMAIN messages : messages[m].label = NULL

\* What a label step may change: m's label becomes l, its labeled_at the
\* current time; no other column, no other row, no new row.
LabelFrame(m, l) ==
    /\ DOMAIN messages' = DOMAIN messages
    /\ \A k \in DOMAIN messages \ {m} : messages'[k] = messages[k]
    /\ messages'[m] = [messages[m] EXCEPT !.label = Some(l), !.labeled_at = Some(now)]

\* C16: a label callback for an existing message m and a label of the three
\* can be taken whatever m's alert and claim state is, and however it is taken
\* it changes m's label and labeled_at and nothing else in the table.
C16_LabelFrame ==
    \A user \in BotUsers, m \in Committed, l \in {"high", "medium", "low"} :
        /\ ENABLED (handle_label_callback(user, LabelData(m, l), TRUE) /\ LabelFrame(m, l))
        /\ ~ ENABLED (handle_label_callback(user, LabelData(m, l), TRUE) /\ ~LabelFrame(m, l))

\* C16 witness: message a was labeled while it is claimed and its digest not
\* yet delivered, with its alert sent; message b was labeled although it was
\* never alerted and never claimed.
C16_Witness ==
    \E a, b \in Committed :
        /\ run["timer"].pc = "deliver" /\ run["timer"].result = << a >>
        /\ messages[a].label = Some("high")
        /\ messages[a].included_in_summary
        /\ messages[a].warning_sent
        /\ messages[b].label = Some("high")
        /\ ~messages[b].included_in_summary /\ claims[b] = 0
        /\ ~messages[b].warning_sent /\ alerts[b].calls = 0

\* C17: a label callback of a user other than client_user_id sets or changes
\* the label of no message.
C17_OnlyClientLabels ==
    [][\A call \in LedgerCalls :
          (call[1] # client_user_id /\ handle_label_callback(call[1], call[2], TRUE)) =>
              \A m \in DOMAIN messages : messages'[m].label = messages[m].label]_vars

\* C18: a cycle that finds no message in the lookback window sends the quiet
\* message and nothing else, does not go on to the SELECT, and leaves the
\* table as it is.
C18_QuietSignal ==
    [][(/\ run["timer"].pc = "idle"
        /\ scheduled_summary_job(TRUE)
        /\ \A m \in DOMAIN messages :
              messages[m].timestamp < now - summary_interval_hours)
          => /\ sent' = << [kind |-> "quiet", total_messages |-> 0] >>
             /\ run'["timer"].pc = "idle"
             /\ messages' = messages
             /\ claims' = claims]_vars

\* C18 witness: the quiet message was sent while the table holds an unlabeled,
\* unclaimed message above the minimum score that is older than the window.
C18_Witness ==
    /\ sent = << [kind |-> "quiet", total_messages |-> 0] >>
    /\ run["timer"].pc = "idle"
    /\ \E m \in Committed :
          /\ messages[m].label = NULL
          /\ ~messages[m].included_in_summary
          /\ messages[m].priority_score >= min_priority_score

\* C19: a cycle that counted messages in the window and whose SELECT returns
\* the empty list sends the all-clear message with the nonzero count, sends no
\* digest and claims nothing.
C19_AllClearSignal ==
    [][(SelectStep("timer") /\ Eligible = {})
          => /\ run["timer"].total_messages > 0
             /\ sent' = << [kind |-> "all_clear",
                            total_messages |-> run["timer"].total_messages] >>
             /\ run'["timer"].pc = "idle"
             /\ messages' = messages
             /\ claims' = claims]_vars

\* C19 witness: all-clear with total 3: of the three messages in the window
\* one is labeled, one is claimed and one is below the minimum score.
C19_Witness ==
    /\ sent = << [kind |-> "all_clear", total_messages |-> 3] >>
    /\ \E a, b, c \in Committed :
          /\ messages[a].label # NULL /\ ~messages[a].included_in_summary
          /\ messages[a].priority_score >= min_priority_score
          /\ messages[b].included_in_summary /\ messages[b].label = NULL
          /\ messages[c].priority_score < min_priority_score
          /\ messages[c].label = NULL /\ ~messages[c].included_in_summary
          /\ \A m \in {a, b, c} : messages[m].timestamp >= now - summary_interval_hours

\* C20: the counts a cycle takes are the number of all messages, and of their
\* distinct chat ids, with a capture timestamp inside the window, whatever
\* their label, claim state and score; the all-clear message and the digest
\* header report the counts the cycle took.
C20_RawCounts ==
    [][/\ (run["timer"].pc = "idle" /\ run'["timer"].pc = "select") =>
            LET window == {m \in DOMAIN messages :
                              messages[m].timestamp >= now - summary_interval_hours}
            IN /\ run'["timer"].total_messages = Cardinality(window)
               /\ run'["timer"].unique_chats =
                     Cardinality({messages[m].chat_id : m \in window})
       /\ (run["timer"].pc # "idle" /\ run'["timer"].pc # "idle") =>
            /\ run'["timer"].total_messages = run["timer"].total_messages
            /\ run'["timer"].unique_chats = run["timer"].unique_chats
       /\ \A i \in DOMAIN sent' :
            /\ sent'[i].kind = "all_clear" =>
                  sent'[i].total_messages = run["timer"].total_messages
            /\ sent'[i].kind = "summary" =>
                  /\ sent'[i].total_messages = run["timer"].total_messages
                  /\ sent'[i].total_chats = run["timer"].unique_chats]_vars

\* C20 witness: a digest of one message reports 3 messages in 2 chats; the
\* other two messages of the window are a labeled one of the same chat and
\* one of another chat that is below the minimum score.
C20_Witness ==
    \E a, b, c \in Committed :
        /\ sent = << Summary(3, 2, 1, << a >>) >>
        /\ messages[b].label # NULL
        /\ messages[c].priority_score < min_priority_score
        /\ messages[a].chat_id = messages[b].chat_id
        /\ messages[a].chat_id # messages[c].chat_id
        /\ \A m \in {a, b, c} : messages[m].timestamp >= now - summary_interval_hours
        /\ a # b /\ b # c /\ a # c

\* C22: when the commit of the new row fails, save_message does not end as it
\* ends after a commit that succeeded: its caller is given the error.
C22_FailureReported ==
    [][save_message_commit_fails => intake' # IdleIntake]_vars

\* C26: calculate_priority_score is 3 for a mention plus 2 for a question plus
\* 1 for a text of more than 100 characters plus 2 for a high-priority sender,
\* for every combination of the flags and the lengths 0, 9, 99, 100, 101 and
\* 102; it is never negative, 0 when no flag is set and the text is not long,
\* and setting one flag never lowers it.  The score a save_message call in
\* flight holds is that sum of its features.
C26_ScoreFunction ==
    /\ \A len \in {0, 9, 99, 100, 101, 102}, m, q, h \in BOOLEAN :
          LET score == calculate_priority_score(len, m, q, h)
          IN /\ score = 3 * (IF m THEN 1 ELSE 0) + 2 * (IF q THEN 1 ELSE 0)
                        + (IF len > 100 THEN 1 ELSE 0) + 2 * (IF h THEN 1 ELSE 0)
             /\ score >= 0
             /\ (~m /\ ~q /\ ~h /\ len <= 100) => score = 0
             /\ calculate_priority_score(len, TRUE, q, h) >= calculate_priority_score(len, FALSE, q, h)
             /\ calculate_priority_score(len, m, TRUE, h) >= calculate_priority_score(len, m, FALSE, h)
             /\ calculate_priority_score(len, m, q, TRUE) >= calculate_priority_score(len, m, q, FALSE)
    /\ \A m, q, h \in BOOLEAN :
          /\ calculate_priority_score(100, m, q, h) = calculate_priority_score(99, m, q, h)
          /\ calculate_priority_score(101, m, q, h) = calculate_priority_score(100, m, q, h) + 1
    /\ intake.pc = "summarizing" =>
          intake.priority_score =
              3 * (IF intake.capture.text.has_mention THEN 1 ELSE 0)
              + 2 * (IF intake.capture.text.is_question THEN 1 ELSE 0)
              + (IF intake.capture.text.len > 100 THEN 1 ELSE 0)
              + 2 * (IF intake.is_high_priority THEN 1 ELSE 0)

\* C26 witness: a call in flight scored a mention of length 101 by a
\* high-priority sender 6, and the stored text of length 100 without a flag by
\* another sender has score 0.
C26_Witness ==
    /\ intake.pc = "summarizing"
    /\ intake.capture.text.len = 101 /\ intake.capture.text.has_mention
    /\ intake.is_high_priority
    /\ intake.priority_score = 6
    /\ \E m \in Committed :
          /\ messages[m].message_length = 100
          /\ ~messages[m].has_mention /\ ~messages[m].is_question
          /\ messages[m].priority_score = 0

\* C27: the score of a message is computed of its features and of the
\* membership of its sender in the cache as save_message read it; the row is
\* flushed and committed with that score and those features, and no step
\* (alert, claim, label, refresh) changes the score or a feature of a stored row.
C27_StoredScore ==
    [][/\ (intake.pc = "idle" /\ intake'.pc = "summarizing") =>
            /\ intake'.is_high_priority = (intake'.capture.user_id \in high_priority_users)
            /\ intake'.priority_score =
                  3 * (IF intake'.capture.text.has_mention THEN 1 ELSE 0)
                  + 2 * (IF intake'.capture.text.is_question THEN 1 ELSE 0)
                  + (IF intake'.capture.text.len > 100 THEN 1 ELSE 0)
                  + 2 * (IF intake'.is_high_priority THEN 1 ELSE 0)
       /\ (intake.pc = "summarizing" /\ intake'.pc = "flushed") =>
            /\ intake'.row.priority_score = intake.priority_score
            /\ intake'.row.has_mention = intake.capture.text.has_mention
            /\ intake'.row.is_question = intake.capture.text.is_question
            /\ intake'.row.message_length = intake.capture.text.len
            /\ intake'.row.user_id = intake.capture.user_id
       /\ \A m \in DOMAIN messages' \ DOMAIN messages :
            /\ intake.pc = "flushed"
            /\ messages'[m] = intake.row
       /\ \A m \in DOMAIN messages :
            /\ m \in DOMAIN messages'
            /\ messages'[m].priority_score = messages[m].priority_score
            /\ messages'[m].has_mention = messages[m].has_mention
            /\ messages'[m].is_question = messages[m].is_question
            /\ messages'[m].message_length = messages[m].message_length
            /\ messages'[m].user_id = messages[m].user_id]_vars

\* C27 witness: a stored text of length 100 without a flag has score 2, the
\* score of a high-priority sender, while its sender is not in the cache any
\* more; the message has been claimed and labeled.
C27_Witness ==
    \E m \in Committed :
        /\ messages[m].message_length = 100
        /\ ~messages[m].has_mention /\ ~messages[m].is_question
        /\ messages[m].priority_score = 2
        /\ messages[m].user_id \notin high_priority_users
        /\ messages[m].included_in_summary
        /\ messages[m].label = Some("high")

\* C28: the cache always holds the complete rows of one read of the table,
\* those of the latest refresh that finished; while a refresh awaits its rows
\* save_message can start for every capture and reads the membership of the
\* sender in the set the cache holds.
C28_AtomicSwap ==
    /\ high_priority_users \in RegistryTables \cup {HighPriorityTable}
    /\ (refresh # NULL /\ intake.pc = "idle" /\ next_id <= MaxMsgs) =>
          \A c \in Captures(IntakeSenders, IntakeTexts) :
              /\ ENABLED (save_message_score(c)
                          /\ intake'.is_high_priority = (c.user_id \in high_priority_users))
              /\ ~ ENABLED (save_message_score(c)
                            /\ intake'.is_high_priority # (c.user_id \in high_priority_users))

\* C28 witness: a refresh has read a table without sender 3 and has not
\* assigned it; a save_message call found sender 3 in the cache, which an
\* earlier refresh had replaced (a stored message of sender 2 was scored as
\* high-priority).
C28_Witness ==
    /\ refresh = Some({2})
    /\ high_priority_users = {3}
    /\ intake.pc = "summarizing"
    /\ intake.capture.user_id = 3 /\ intake.is_high_priority
    /\ \E m \in Committed :
          /\ messages[m].user_id = 2
          /\ messages[m].message_length = 100
          /\ messages[m].priority_score = 2

\* What save_message does once generate_topic_summary has returned after the
\* ollama call did outcome: the row is flushed with the score computed before
\* the call, and with no hint unless ollama answered.
HintFrame(outcome) ==
    /\ intake'.pc = "flushed"
    /\ intake'.row.id = next_id
    /\ intake'.row.priority_score = intake.priority_score
    /\ outcome.kind # "answered" => intake'.row.topic_summary = NULL

\* C30: whatever the ollama call does (answers, is not installed, times out,
\* raises) save_message goes on to flush and commit the row; when the call
\* failed the stored hint is NULL, and the score and with it the alert
\* decision are those of a call that answered.
C30_HintNeverBlocks ==
    /\ intake.pc = "summarizing" =>
          \A outcome \in OllamaOutcomes :
              /\ ENABLED (save_message_insert(outcome) /\ HintFrame(outcome))
              /\ ~ ENABLED (save_message_insert(outcome) /\ ~HintFrame(outcome))
    /\ intake.pc = "flushed" =>
          /\ ENABLED (save_message_commit /\ messages'[intake.row.id] = intake.row)
          /\ ~ ENABLED (save_message_commit /\ intake.row.id \notin DOMAIN messages')
    /\ \A m \in Committed :
          (alerts[m].calls >= 1) <=> (messages[m].priority_score >= warning_threshold_score)

\* C30 witness: two stored messages of the same text and sender, one without a
\* hint and one with a hint of five words, have the same score and were both
\* alerted.
C30_Witness ==
    \E a, b \in Committed :
        /\ messages[a].topic_summary = NULL
        /\ messages[b].topic_summary = Some(5)
        /\ messages[a].message_length = 101 /\ messages[b].message_length = 101
        /\ messages[a].user_id = messages[b].user_id
        /\ messages[a].priority_score = messages[b].priority_score
        /\ messages[a].priority_score >= warning_threshold_score
        /\ alerts[a].calls = 1 /\ alerts[b].calls = 1

Effect(r, e, replies) ==
    /\ run'[r] = e.run
    /\ messages' = e.table
    /\ claims' = e.claims
    /\ sent' = replies \o e.out

\* The lists of at most LedgerCap distinct ids.
Lists ==
    {l \in UNION {[1..n -> 1..LedgerRows] : n \in 1..LedgerCap} :
        \A i, j \in DOMAIN l : i # j => l[i] # l[j]}

\* Every effect a step of a cycle whose record is rec can have.
CycleEffects(rec) ==
    LET same(x, o) == [run |-> x, table |-> messages, claims |-> claims, out |-> o]
    IN CASE rec.pc = "idle" ->
              {same(x, o) :
                  x \in {IdleRun} \cup
                        {[pc |-> "select", total_messages |-> t, unique_chats |-> c,
                          result |-> << >>] : t, c \in 1..LedgerRows},
                  o \in {<< >>, << Quiet >>, << ErrorReport >>}}
         [] rec.pc = "select" ->
              {same(x, o) :
                  x \in {IdleRun} \cup {[rec EXCEPT !.pc = "claim", !.result = l] : l \in Lists},
                  o \in {<< >>, << AllClear(rec.total_messages) >>, << ErrorReport >>}}
         [] rec.pc = "claim" ->
              {same(IdleRun, o) : o \in {<< >>, << ErrorReport >>}}
              \cup {[run |-> [rec EXCEPT !.pc = "deliver"],
                     table |-> [m \in DOMAIN messages |->
                                  IF m \in Range(rec.result)
                                  THEN [messages[m] EXCEPT !.included_in_summary = TRUE,
                                                           !.summary_sent_at = Some(now)]
                                  ELSE messages[m]],
                     claims |-> [m \in DOMAIN claims |->
                                  IF m \in Range(rec.result) THEN claims[m] + 1
                                  ELSE claims[m]],
                     out |-> << >>]}
         [] rec.pc = "deliver" ->
              {same(IdleRun, o) :
                  o \in {<< >>, << ErrorReport >>}
                        \cup {<< Summary(rec.total_messages, rec.unique_chats,
                                         Len(rec.result), SubSeq(rec.result, 1, k)) >> \o e :
                                k \in 0..Len(rec.result), e \in {<< >>, << ErrorReport >>}}}

\* C21: where the timer's cycle and the manual cycle stand at the same point
\* with the same counts and list, over the same table and at the same time,
\* every step the one can take the other can take, with the same list
\* selected, the same rows claimed and the same messages sent: for
\* trigger_summary_now from the start of the cycle, for /summary after its
\* reply; and the steps have no other effects than those compared.
C21_TriggerEquivalence ==
    run["timer"] = run["manual"] =>
        LET rec == run["timer"]
        IN /\ \A e \in CycleEffects(rec) :
                 /\ ENABLED (TimerCycle /\ Effect("timer", e, << >>))
                       <=> ENABLED (ManualCycle /\ Effect("manual", e, << >>))
                 /\ rec.pc = "idle" =>
                       (ENABLED (TimerCycle /\ Effect("timer", e, << >>))
                           <=> ENABLED (CommandStart(client_user_id)
                                        /\ Effect("manual", e, << Generating >>)))
           /\ ~ ENABLED (TimerCycle
                         /\ \A e \in CycleEffects(rec) : ~Effect("timer", e, << >>))
           /\ ~ ENABLED (ManualCycle
                         /\ \A e \in CycleEffects(rec) : ~Effect("manual", e, << >>))

\* C21 witness: both cycles have selected the same list of two messages out of
\* three eligible ones and neither has claimed it.
C21_Witness ==
    /\ run["timer"].pc = "claim"
    /\ run["manual"] = run["timer"]
    /\ Len(run["timer"].result) = LedgerCap
    /\ Cardinality(Eligible) = LedgerCap + 1
    /\ \A m \in Range(run["timer"].result) : claims[m] = 0

\* C23: when a count query, the SELECT or the claim UPDATE of a cycle raises,
\* the cycle ends there: it hands out nothing but the error report, claims
\* and changes no row and selects nothing again; a cycle starts only when the
\* timer fires or the client asks for one.
C23_StorageFailureTerminal ==
    [][\A r \in Runners :
          /\ (\E reported \in BOOLEAN, replies \in {<< >>, << Generating >>} :
                \/ get_message_stats_fails(r, replies, TRUE, reported)
                \/ get_unlabeled_messages_fails(r, TRUE, reported))
                => /\ run'[r] = IdleRun
                   /\ messages' = messages
                   /\ claims' = claims
                   /\ \A i \in DOMAIN sent' : sent'[i].kind \in {"generating", "error"}
          /\ (run[r].pc = "idle" /\ run'[r].pc # "idle")
                => \/ scheduled_summary_job(TRUE)
                   \/ trigger_summary_now(TRUE)
                   \/ handle_summary_command(client_user_id, TRUE)]_vars

\* C23 witness: the error report was sent and both cycles are over while an
\* eligible message waits and no message of the table has ever been claimed.
C23_Witness ==
    /\ sent = << ErrorReport >>
    /\ \A r \in Runners : run[r] = IdleRun
    /\ Eligible # {}
    /\ \A m \in DOMAIN messages : claims[m] = 0 /\ ~messages[m].included_in_summary

\* C24: a cycle whose send_summary raised ends as a cycle that delivered: its
\* runner is back at IdleRun, where generate_and_send_summary has returned to
\* the timer job or the /summary handler, also when the error report could not
\* be sent; no runner is ever left with an exception of the cycle.
C24_DeliveryFailureContained ==
    [][\A r \in Runners :
          /\ run'[r].pc \in {"idle", "select", "claim", "deliver"}
          /\ (run[r].pc = "deliver" /\ run'[r].pc # "deliver") => run'[r] = IdleRun
          /\ \A parts \in 0..LedgerCap + 1, reported \in BOOLEAN :
                send_summary_fails(r, parts, TRUE, reported) => run'[r] = IdleRun]_vars

\* C24 witness: of a digest of two messages the header and the first card were
\* sent, then a send raised and the error report raised too; both cycles are
\* over and both messages are claimed.
C24_Witness ==
    \E a, b \in Committed, total, chats \in 1..LedgerRows :
        /\ a # b
        /\ sent = << Summary(total, chats, 2, << a >>) >>
        /\ \A r \in Runners : run[r] = IdleRun
        /\ messages[a].included_in_summary /\ messages[b].included_in_summary

\* C25: every message a selector run returns from its SELECT, and every
\* message it claims, has a row that save_message has committed; a run never
\* holds a message whose row is flushed and not committed.
C25_PersistBeforeClaim ==
    [][\A r \in Runners :
          /\ (run[r].pc = "select" /\ run'[r].pc = "claim")
                => Range(run'[r].result) \subseteq DOMAIN messages
          /\ (run[r].pc = "claim" /\ run'[r].pc = "deliver")
                => Range(run[r].result) \subseteq DOMAIN messages]_vars

\* C31: a message that is labeled when a run's claim UPDATE is applied is not
\* claimed by that UPDATE and is not in the list the run hands to delivery.
C31_NoLabeledInDigest ==
    [][\A r \in Runners :
          (run[r].pc = "claim" /\ run'[r].pc = "deliver") =>
              \A m \in DOMAIN messages :
                  messages[m].label # NULL =>
                      /\ m \notin Range(run'[r].result)
                      /\ messages'[m].included_in_summary = messages[m].included_in_summary
                      /\ messages'[m].summary_sent_at = messages[m].summary_sent_at]_vars

\* The columns of the three facets of a row.
AlertFacet(row) == << row.warning_sent, row.warning_sent_at >>
ClaimFacet(row) == << row.included_in_summary, row.summary_sent_at >>
LabelFacet(row) == << row.label, row.labeled_at >>

\* C32: the alert-sent update, the claim update and the label update of a
\* message each take effect and each leave the columns of the other two
\* facets as they are, in whatever order they are applied; a flag or label
\* that one of them has set is never lost to a later one.
C32_NoLostUpdate ==
    [][\A m \in DOMAIN messages :
          /\ m \in DOMAIN messages'
          /\ (intake.pc = "sending" /\ intake.row.id = m /\ send_warning_delivered(TRUE)) =>
                /\ messages'[m].warning_sent
                /\ ClaimFacet(messages'[m]) = ClaimFacet(messages[m])
                /\ LabelFacet(messages'[m]) = LabelFacet(messages[m])
          /\ (\E r \in Runners : /\ run[r].pc = "claim" /\ run'[r].pc = "deliver"
                                 /\ m \in Range(run[r].result)) =>
                /\ messages'[m].included_in_summary
                /\ AlertFacet(messages'[m]) = AlertFacet(messages[m])
                /\ LabelFacet(messages'[m]) = LabelFacet(messages[m])
          /\ \A l \in {"high", "medium", "low"} :
                (/\ run' = run /\ intake' = intake /\ messages' # messages
                 /\ handle_label_callback(client_user_id, LabelData(m, l), FALSE)) =>
                    /\ messages'[m].label = Some(l)
                    /\ AlertFacet(messages'[m]) = AlertFacet(messages[m])
                    /\ ClaimFacet(messages'[m]) = ClaimFacet(messages[m])
          /\ messages[m].warning_sent => messages'[m].warning_sent
          /\ messages[m].included_in_summary => messages'[m].included_in_summary
          /\ messages[m].label # NULL => messages'[m].label # NULL]_vars

\* C32 witness: the run has claimed messages a and b, both labeled after its
\* SELECT; a's alert was sent and marked, b's alert is still in flight while
\* b is already labeled and claimed.
C32_Witness ==
    \E a, b \in Committed :
        /\ a # b
        /\ run["timer"].pc = "deliver"
        /\ Range(run["timer"].result) = {a, b}
        /\ messages[a].label # NULL /\ messages[a].included_in_summary
        /\ messages[a].warning_sent
        /\ intake.pc = "sending" /\ intake.row.id = b
        /\ messages[b].label # NULL /\ messages[b].included_in_summary
        /\ ~messages[b].warning_sent

\* C33: the step that ends the claim of a run either marks every message of
\* the selected list claimed, with the claim time, and goes on to delivery, or
\* (the UPDATE or the commit raised) leaves every row as it was, ends the
\* cycle without a call of send_summary and sends at most the error report.
C33_ClaimAllOrNothing ==
    [][\A r \in Runners :
          (run[r].pc = "claim" /\ run'[r] # run[r]) =>
              \/ /\ run'[r] = [run[r] EXCEPT !.pc = "deliver"]
                 /\ \A m \in Range(run[r].result) :
                       /\ messages'[m].included_in_summary
                       /\ messages'[m].summary_sent_at = Some(now)
                 /\ \A m \in DOMAIN messages \ Range(run[r].result) :
                       messages'[m] = messages[m]
              \/ /\ run'[r] = IdleRun
                 /\ messages' = messages
                 /\ claims' = claims
                 /\ \A i \in DOMAIN sent' : sent'[i].kind = "error"]_vars

\* C33 witness: the error report was sent and the timer's cycle is over; the
\* manual cycle holds a selected list of two messages; no message is claimed.
C33_Witness ==
    /\ sent = << ErrorReport >>
    /\ run["timer"] = IdleRun
    /\ run["manual"].pc = "claim"
    /\ Len(run["manual"].result) = LedgerCap
    /\ \A m \in DOMAIN messages :
          /\ claims[m] = 0
          /\ ~messages[m].included_in_summary
          /\ messages[m].summary_sent_at = NULL

\* C34: the list a cycle hands to delivery is never longer than the total the
\* cycle counted, also when save_message commits a row between the counts and
\* the SELECT.
C34_CountsConsistent ==
    \A r \in Runners :
        run[r].pc \in {"claim", "deliver"} => Len(run[r].result) <= run[r].total_messages

\* C35 as stated: the step that ends a cycle hands out exactly one thing: the
\* quiet message, the all-clear message, the whole digest, or the error report.
C35_OneOutcome ==
    [][run'["timer"].pc = "idle" =>
          LET rec == run["timer"]
          IN /\ Len(sent') = 1
             /\ \/ sent'[1] = Quiet /\ rec.pc = "idle"
                \/ sent'[1] = AllClear(rec.total_messages) /\ rec.total_messages > 0
                \/ /\ sent'[1] = Summary(rec.total_messages, rec.unique_chats,
                                         Len(rec.result), rec.result)
                   /\ rec.total_messages > 0 /\ rec.result # << >>
                \/ sent'[1] = ErrorReport]_vars

\* C35: every cycle ends, and sends only in its last step: nothing (a step
\* raised and the error report could not be sent), the error report alone, the
\* quiet message (nothing in the window), the all-clear message (total > 0,
\* empty list), or the digest of a non-empty list with total > 0, whole or cut
\* short by a send that raised and then followed by the error report if that
\* could be sent.  A cycle never sends a signal and a digest, nor two signals.
C35_AtMostOneSignal ==
    /\ [][LET rec == run["timer"]
          IN /\ run'["timer"].pc # "idle" => sent' = << >>
             /\ run'["timer"].pc = "idle" =>
                  \/ sent' \in {<< >>, << ErrorReport >>}
                  \/ /\ sent' = << Quiet >>
                     /\ rec.pc = "idle"
                     /\ CountMessages(messages, summary_interval_hours) = 0
                  \/ /\ sent' = << AllClear(rec.total_messages) >>
                     /\ rec.pc = "select" /\ rec.total_messages > 0
                  \/ /\ rec.pc = "deliver" /\ rec.total_messages > 0 /\ rec.result # << >>
                     /\ \E k \in 0..Len(rec.result) :
                           LET digest == Summary(rec.total_messages, rec.unique_chats,
                                                 Len(rec.result), SubSeq(rec.result, 1, k))
                           IN sent' \in {<< digest >>, << digest, ErrorReport >>}]_vars
    /\ (run["timer"].pc # "idle") ~> (run["timer"].pc = "idle")

\* C35 witness: a cycle sent the header and both cards of a digest of two
\* messages, the footer raised and the error report was sent; the cycle is
\* over.
C35_Witness ==
    \E a, b \in Committed, total, chats \in 1..LedgerRows :
        /\ a # b
        /\ sent = << Summary(total, chats, 2, << a, b >>), ErrorReport >>
        /\ run["timer"] = IdleRun

C37_FlagTimestampPairs ==
    LET paired(row) ==
            /\ row.included_in_summary <=> row.summary_sent_at # NULL
            /\ row.warning_sent <=> row.warning_sent_at # NULL
            /\ row.label # NULL <=> row.labeled_at # NULL
    IN /\ \A m \in DOMAIN messages : paired(messages[m])
       /\ intake.pc = "flushed" => paired(intake.row)

\* C37 witness: one message has all three pairs set, another has none set.
C37_Witness ==
    /\ \E a, b \in Committed :
          /\ messages[a].warning_sent /\ messages[a].warning_sent_at # NULL
          /\ messages[a].included_in_summary /\ messages[a].summary_sent_at # NULL
          /\ messages[a].label # NULL /\ messages[a].labeled_at # NULL
          /\ ~messages[b].warning_sent /\ messages[b].warning_sent_at = NULL
          /\ ~messages[b].included_in_summary /\ messages[b].summary_sent_at = NULL
          /\ messages[b].label = NULL /\ messages[b].labeled_at = NULL

\* C38: however the /summary command of a user other than client_user_id is
\* handled, it starts no cycle, claims and changes no row, and sends nothing:
\* no reply, no signal, no digest.
C38_ManualTriggerAuthorized ==
    \A user \in BotUsers \ {client_user_id} :
        ~ ENABLED (/\ handle_summary_command(user, TRUE)
                   /\ \/ run' # run
                      \/ messages' # messages
                      \/ claims' # claims
                      \/ sent' # sent
                      \/ next_id' # next_id)

\* C38 witness: the timer's cycle has selected a list and not yet claimed it,
\* no manual cycle runs; the command of another user is handled, and the same
\* command of the client would start a cycle.
C38_Witness ==
    /\ run["manual"] = IdleRun
    /\ run["timer"].pc = "claim"
    /\ Range(run["timer"].result) \subseteq Eligible
    /\ \A m \in DOMAIN messages : claims[m] = 0
    /\ ENABLED handle_summary_command(client_user_id + 1, TRUE)
    /\ ENABLED (handle_summary_command(client_user_id, TRUE) /\ run'["manual"].pc = "select")

\* C39: the row a save_message block has flushed becomes a committed row,
\* visible to the other sessions, only in the step in which that block
\* commits; when the block's commit raises, the row is rolled back and is not
\* in the table.
C39_SessionDiscipline ==
    [][/\ \A m \in DOMAIN messages' \ DOMAIN messages : save_message_commit
       /\ (intake.pc = "flushed" /\ intake'.pc # "flushed") =>
             IF intake.row.id \in DOMAIN messages' THEN save_message_commit
             ELSE save_message_commit_fails
       /\ save_message_commit_fails => intake.row.id \notin DOMAIN messages']_vars
====
